---- MODULE Spec2Model ----
(***************************************************************************)
(* Model of the transcript summarization scripts:                          *)
(*   scripts/summarize_transcript.py            (the "driver")             *)
(*   scripts/summarize_transcript_with_agnos.py (the "agnos" script)       *)
(* Text is modelled as a sequence of one-character strings, so that the    *)
(* regular-expression substitutions, strip(), split() and join() are       *)
(* computed character by character as the Python code computes them.       *)
(***************************************************************************)
EXTENDS Naturals, Sequences, FiniteSets

VARIABLES
    script,          \* which script / function this run executes
    pc,              \* position in that script
    args,            \* driver: the parsed command line (video_id, output)
    env,             \* agnos: the three provider environment variables
    transcript,      \* the segments (or the text) given to the cleaner / summarizer
    video_details,   \* driver: result of fetch_video_details
    video_title,     \* title handed to the summarizer
    transcript_text, \* cleaned text
    summary,         \* what the summarizer returned
    recleaned,       \* cleaner: clean_transcript_text applied to its own output
    exitCode,        \* process exit status, NoExit while running
    events,          \* history: the externally visible steps, in order
    outfile,         \* driver: content of the --output file
    USING_AGNO,      \* agnos: the module-level provider flag
    llm,             \* agnos: the module-level summarization function or None
    obs              \* history: what the collaborators answered

vars == <<script, pc, args, env, transcript, video_details, video_title,
          transcript_text, summary, recleaned, exitCode, events, outfile,
          USING_AGNO, llm, obs>>

\* Python's None where a string is expected (no title here is "None"), and a
\* module-level name not bound yet.
None == "None"
Unbound == "unbound"

\* A value that is None, a list or a string: the tag and the elements.
NoValue == [type |-> "none", value |-> <<>>]
ListOf(l) == [type |-> "list", value |-> l]
StrOf(t) == [type |-> "str", value |-> t]
\* `not x`: None, [] and "" are false.
Falsy(x) == x.value = <<>>

\* The exit status: none while the process runs.
Running == <<>>
Status(code) == <<code>>

NoSummary == [kind |-> "none"]
NoFile == [exists |-> FALSE]
NoArgs == [video_id |-> "", output |-> FALSE]
NoObs == [kind |-> "none"]

\* The three provider variables of os.environ once load_dotenv has run
\* (lines 7-16): each unset, set to the empty string, or set to a value.
EnvVars == <<"AZURE_OPENAI_API_KEY", "AZURE_OPENAI_API_VERSION",
             "AZURE_OPENAI_ENDPOINT">>
Unset == "unset"
EnvValues == {Unset, "", "value"}
Environments == [{EnvVars[k] : k \in 1..Len(EnvVars)} -> EnvValues]
NoEnv == [v \in {EnvVars[k] : k \in 1..Len(EnvVars)} |-> Unset]

\* not os.environ.get(env_var)
EnvMissing(e, v) == e[v] = Unset \/ e[v] = ""

SummarizeWithOpenai == "summarize_with_openai"


----------------------------------------------------------------------------
(* Characters and the regular expressions of the two scripts *)

Whitespace == {" ", "\t"}
Lower == {"a", "b", "c", "d", "e", "f", "g", "h", "i", "j", "k", "l", "m",
          "n", "o", "p", "q", "r", "s", "t", "u", "v", "w", "x", "y", "z"}
Digit == {"0", "1", "2", "3", "4", "5", "6", "7", "8", "9"}

\* Index of the first ">" at a position >= i, 0 when there is none: where
\* [^>]*> ends.
FirstGt(s, i) ==
    IF \E j \in i..Len(s) : s[j] = ">"
    THEN CHOOSE j \in i..Len(s) : s[j] = ">" /\ \A k \in i..(j - 1) : s[k] # ">"
    ELSE 0

\* End of the maximal whitespace run that starts at i.
RunEnd(s, i) ==
    CHOOSE j \in i..Len(s) :
        /\ j = Len(s) \/ s[j + 1] \notin Whitespace
        /\ \A k \in i..j : s[k] \in Whitespace

\* r'<\d{2}:\d{2}:\d{2}\.\d{3}>'
TimestampEnd(s, i) ==
    IF /\ i + 13 <= Len(s)
       /\ s[i] = "<"
       /\ s[i + 1] \in Digit /\ s[i + 2] \in Digit /\ s[i + 3] = ":"
       /\ s[i + 4] \in Digit /\ s[i + 5] \in Digit /\ s[i + 6] = ":"
       /\ s[i + 7] \in Digit /\ s[i + 8] \in Digit /\ s[i + 9] = "."
       /\ s[i + 10] \in Digit /\ s[i + 11] \in Digit /\ s[i + 12] \in Digit
       /\ s[i + 13] = ">"
    THEN i + 13 ELSE 0

\* r'</?[a-z][^>]*>'
StyleTagEnd(s, i) ==
    IF s[i] # "<" THEN 0
    ELSE LET p == IF i + 1 <= Len(s) /\ s[i + 1] = "/" THEN i + 2 ELSE i + 1
         IN  IF p <= Len(s) /\ s[p] \in Lower THEN FirstGt(s, p + 1) ELSE 0

\* r'<[^>]*>'
AngleEnd(s, i) == IF s[i] = "<" THEN FirstGt(s, i + 1) ELSE 0

\* r'<[^>]+>'
AnglePlusEnd(s, i) ==
    IF s[i] = "<" /\ i + 1 <= Len(s) /\ s[i + 1] # ">"
    THEN FirstGt(s, i + 2) ELSE 0

\* r'\s+'
SpacesEnd(s, i) == IF s[i] \in Whitespace THEN RunEnd(s, i) ELSE 0

\* End of the match of pattern pat that starts at i, 0 when it does not match.
MatchEnd(pat, s, i) ==
    CASE pat = "timestamp"  -> TimestampEnd(s, i)
      [] pat = "style_tag"  -> StyleTagEnd(s, i)
      [] pat = "angle"      -> AngleEnd(s, i)
      [] pat = "angle_plus" -> AnglePlusEnd(s, i)
      [] pat = "spaces"     -> SpacesEnd(s, i)

\* sep.join(parts[lo..hi]), by halves.
RECURSIVE JoinRange(_, _, _, _)
JoinRange(parts, sep, lo, hi) ==
    IF lo > hi THEN <<>>
    ELSE IF lo = hi THEN parts[lo]
    ELSE LET mid == (lo + hi) \div 2
         IN  JoinRange(parts, sep, lo, mid) \o sep \o JoinRange(parts, sep, mid + 1, hi)

\* sep.join(parts)
Join(parts, sep) == JoinRange(parts, sep, 1, Len(parts))

\* re.sub(pat, repl, s): the leftmost non-overlapping matches, left to right,
\* each replaced by repl. cand lists, in order, the positions where the
\* pattern matches. The scan takes the match at cand[k] unless an earlier
\* taken match consumed that position; for the five patterns above a match
\* that reaches a later candidate is itself taken or lies inside a taken
\* match with the same end, and every candidate between the two reaches as
\* far, so cand[k] is consumed exactly when the match at cand[k-1] reaches it.
ReSub(pat, repl, s) ==
    LET n == Len(s)
        ends == SubSeq([j \in 1..n |-> MatchEnd(pat, s, j)], 1, n)
        IsCand(j) == ends[j] # 0
        cand == SelectSeq([j \in 1..n |-> j], IsCand)
        IsTaken(k) == k = 1 \/ ends[cand[k - 1]] < cand[k]
        takenIdx == SelectSeq([k \in 1..Len(cand) |-> k], IsTaken)
        m == Len(takenIdx)
        start(t) == cand[takenIdx[t]]
        \* the text kept before the t-th taken match, then its replacement;
        \* piece m+1 is the text after the last match
        pieces == [t \in 1..(m + 1) |->
                     LET from == IF t = 1 THEN 1 ELSE ends[start(t - 1)] + 1
                     IN  IF t <= m THEN SubSeq(s, from, start(t) - 1) \o repl
                         ELSE SubSeq(s, from, n)]
    IN  Join(pieces, <<>>)

\* str.strip()
Strip(s) ==
    LET n == Len(s)
        lead == CHOOSE k \in 0..n :
                    /\ \A i \in 1..k : s[i] \in Whitespace
                    /\ k = n \/ s[k + 1] \notin Whitespace
        trail == CHOOSE k \in 0..n :
                    /\ \A i \in (n - k + 1)..n : s[i] \in Whitespace
                    /\ k = n \/ s[n - k] \notin Whitespace
    IN  IF lead = n THEN <<>> ELSE SubSeq(s, lead + 1, n - trail)

----------------------------------------------------------------------------
(* summarize_transcript.py: clean_transcript_text *)

\* The body of the loop over the segments.
clean_segment(segment) ==
    LET t0 == segment.text
        t1 == ReSub("timestamp", <<>>, t0)
        t2 == ReSub("style_tag", <<>>, t1)
        t3 == ReSub("angle", <<>>, t2)
        t4 == ReSub("spaces", <<" ">>, t3)
    IN  Strip(t4)

clean_transcript_text(segments) ==
    IF segments = <<>> THEN <<>>
    ELSE Join([k \in 1..Len(segments) |-> clean_segment(segments[k])], <<" ">>)

----------------------------------------------------------------------------
(* summarize_transcript_with_agnos.py: fallback_summarize *)

\* End of the maximal run of non-whitespace characters that starts at i.
WordEnd(s, i) ==
    CHOOSE j \in i..Len(s) :
        /\ j = Len(s) \/ s[j + 1] \in Whitespace
        /\ \A k \in i..j : s[k] \notin Whitespace

\* str.split(): the maximal runs of non-whitespace characters, in order.
Split(s) ==
    LET IsStart(i) == s[i] \notin Whitespace /\ (i = 1 \/ s[i - 1] \in Whitespace)
        starts == SelectSeq([i \in 1..Len(s) |-> i], IsStart)
    IN  [k \in 1..Len(starts) |-> SubSeq(s, starts[k], WordEnd(s, starts[k]))]

Min(a, b) == IF a <= b THEN a ELSE b

\* words[a:b] for 0 <= a
Slice(words, a, b) == SubSeq(words, a + 1, Min(b, Len(words)))

\* Python truthiness of an optional string
Truthy(x) == x # None /\ x # ""

\* "fewer than 50 words"
MinWords == 50
\* the length of an excerpt
ExcerptWords == 100
\* half of the middle window
HalfWindow == 50

\* re.sub(r'<[^>]+>', '', text) then re.sub(r'\s+', ' ', text).strip()
strip_tags_and_normalize(text) ==
    Strip(ReSub("spaces", <<" ">>, ReSub("angle_plus", <<>>, text)))

\* Python's max(0, a - b) on naturals
MaxZeroDiff(a, b) == IF a >= b THEN a - b ELSE 0

middle_start_bad(total_words) == total_words \div 2

middle_start(total_words) == MaxZeroDiff(total_words \div 2, HalfWindow)

end_start(total_words) == MaxZeroDiff(total_words, ExcerptWords)

\* The notice and the report, the f-strings kept as records of their parts.
Notice(total_words) == [kind |-> "notice", total_words |-> total_words]

Report(words, title) ==
    LET total_words == Len(words)
    IN  [kind        |-> "report",
         title_text  |-> IF Truthy(title) THEN <<"Video: ", title>> ELSE <<>>,
         total_words |-> total_words,
         beginning   |-> Join(Slice(words, 0, ExcerptWords), <<" ">>),
         middle      |-> Join(Slice(words, middle_start(total_words),
                                    middle_start(total_words) + ExcerptWords),
                              <<" ">>),
         end         |-> Join(Slice(words, end_start(total_words), total_words),
                              <<" ">>)]

fallback_summarize_le(text, title) ==
    LET words == Split(strip_tags_and_normalize(text))
    IN  IF Len(words) <= MinWords THEN Notice(Len(words)) ELSE Report(words, title)

fallback_summarize(text, title) ==
    LET words == Split(strip_tags_and_normalize(text))
    IN  IF Len(words) < MinWords THEN Notice(Len(words)) ELSE Report(words, title)

----------------------------------------------------------------------------
(* Bounded inputs *)

\* longest generated text, in words
MaxWords == 104

LetterSeq == <<"a", "b", "c", "d", "e", "f", "g", "h", "i", "j", "k", "l", "m",
               "n", "o", "p", "q", "r", "s", "t", "u", "v", "w", "x", "y", "z">>

\* The i-th word of a generated text: two letters, distinct for distinct i.
Word(i) == <<LetterSeq[(i \div 26) + 1], LetterSeq[(i % 26) + 1]>>

Styles == {"plain", "same", "markup"}

\* The words a generated text of n words holds once cleaned.
GenWords(n, style) ==
    [i \in 1..n |-> IF style = "same" THEN <<"a">> ELSE Word(i)]

\* A text of n words: single spaces, or style tags and irregular whitespace
\* between the words and around the text.
GenText(n, style) ==
    IF style = "markup"
    THEN <<"\t", "<", "c", ">">> \o Join(GenWords(n, style), <<" ", "\t">>)
                                  \o <<"<", "/", "c", ">", " ">>
    ELSE Join(GenWords(n, style), <<" ">>)

Titles == {None, "", "My Video"}

----------------------------------------------------------------------------
(* fallback_summarize applied to every generated text *)

InitFallback ==
    /\ script = "fallback"
    /\ pc = "call"
    /\ \E n \in 0..MaxWords, style \in Styles :
          /\ transcript_text = GenText(n, style)
          /\ obs = [kind |-> "generated", n |-> n, style |-> style]
    /\ video_title \in Titles
    /\ summary = NoSummary
    /\ args = NoArgs /\ env = NoEnv /\ transcript = NoValue
    /\ video_details = NoValue /\ recleaned = <<>> /\ exitCode = Running
    /\ events = <<>> /\ outfile = NoFile /\ USING_AGNO = Unbound /\ llm = Unbound

FallbackCall ==
    /\ script = "fallback" /\ pc = "call"
    /\ summary' = fallback_summarize(transcript_text, video_title)
    /\ pc' = "returned"
    /\ UNCHANGED <<script, args, env, transcript, video_details, video_title,
                   transcript_text, recleaned, exitCode, events, outfile,
                   USING_AGNO, llm, obs>>

NextFallback == FallbackCall

SpecFallback == InitFallback /\ [][NextFallback]_vars

----------------------------------------------------------------------------
(* clean_transcript_text applied to every short list of marked-up segments, *)
(* and then to its own result                                               *)

\* fragments per segment text
MaxFrags == 2
\* segments per transcript
MaxSegs == 3

Timestamp == <<"<", "0", "0", ":", "0", "0", ":", "1", "1", ".", "2", "0", "0", ">">>

Frags == {Timestamp, <<"<", "c", ">">>, <<"<">>, <<">">>, <<" ">>, <<"a">>}

RECURSIVE FragTexts(_)
FragTexts(k) ==
    IF k = 0 THEN {<<>>}
    ELSE FragTexts(k - 1) \cup {t \o f : t \in FragTexts(k - 1), f \in Frags}

RECURSIVE SegLists(_)
SegLists(k) ==
    IF k = 0 THEN {<<>>}
    ELSE SegLists(k - 1)
         \cup {l \o <<[text |-> t]>> : l \in SegLists(k - 1), t \in FragTexts(MaxFrags)}

InitCleaner ==
    /\ script = "cleaner"
    /\ pc = "call"
    /\ \E l \in SegLists(MaxSegs) : transcript = ListOf(l)
    /\ transcript_text = <<>> /\ recleaned = <<>>
    /\ args = NoArgs /\ env = NoEnv /\ video_details = NoValue /\ video_title = None
    /\ summary = NoSummary /\ exitCode = Running /\ events = <<>> /\ outfile = NoFile
    /\ USING_AGNO = Unbound /\ llm = Unbound /\ obs = NoObs

CleanerCall ==
    /\ script = "cleaner" /\ pc = "call"
    /\ transcript_text' = clean_transcript_text(transcript.value)
    /\ pc' = "cleaned"
    /\ UNCHANGED <<script, args, env, transcript, video_details, video_title,
                   summary, recleaned, exitCode, events, outfile, USING_AGNO,
                   llm, obs>>

\* The cleaned text handed back as one segment.
CleanerRecall ==
    /\ script = "cleaner" /\ pc = "cleaned"
    /\ recleaned' = clean_transcript_text(<<[text |-> transcript_text]>>)
    /\ pc' = "recleaned"
    /\ UNCHANGED <<script, args, env, transcript, video_details, video_title,
                   transcript_text, summary, exitCode, events, outfile,
                   USING_AGNO, llm, obs>>

NextCleaner == CleanerCall \/ CleanerRecall

SpecCleaner == InitCleaner /\ [][NextCleaner]_vars

----------------------------------------------------------------------------
(* summarize_transcript.py: the driver *)

\* "first 10,000 chars"
PromptChars == 10000

UntitledVideo == "Untitled Video"

\* Errors that `except requests.RequestException` catches.
RequestErrors == {"connection_error", "http_error"}

\* A response body that is not JSON makes response.json() raise; whether
\* that error is a RequestException depends on the installed requests
\* version, so the response carries which of the two the build produces.
IsCaught(resp) ==
    \/ resp.kind \in RequestErrors
    \/ resp.kind = "bad_json" /\ resp.caught

Returned(v) == [raised |-> FALSE, value |-> v]
Raised == [raised |-> TRUE, value |-> NoValue]

\* data.get(key): None when the key is missing
Get(field) == IF field.type = "missing" THEN NoValue ELSE field

fetch_transcript_or(resp) ==
    IF IsCaught(resp) THEN Returned(NoValue)
    ELSE IF resp.kind = "bad_json" THEN Raised
    ELSE IF resp.success = "true" \/ ~Falsy(Get(resp.transcript))
         THEN Returned(Get(resp.transcript))
         ELSE Raised

\* lines 30-42: data.get("success") and data.get("transcript")
fetch_transcript(resp) ==
    IF IsCaught(resp) THEN Returned(NoValue)
    ELSE IF resp.kind = "bad_json" THEN Raised
    ELSE IF resp.success = "true" /\ ~Falsy(Get(resp.transcript))
         THEN Returned(Get(resp.transcript))
         ELSE Raised

fetch_video_details_swallow(resp) ==
    IF resp.kind = "json" /\ ~Falsy(Get(resp.items))
    THEN Returned([type |-> "dict", value |-> resp.items.value[1]])
    ELSE Returned(NoValue)

fetch_video_details_strict(resp) ==
    IF resp.kind = "json" /\ ~Falsy(Get(resp.items))
    THEN Returned([type |-> "dict", value |-> resp.items.value[1]])
    ELSE Raised

\* lines 48-60: data.get("items") and len(data["items"]) > 0
fetch_video_details(resp) ==
    IF IsCaught(resp) THEN Returned(NoValue)
    ELSE IF resp.kind = "bad_json" THEN Raised
    ELSE IF ~Falsy(Get(resp.items))
         THEN Returned([type |-> "dict", value |-> resp.items.value[1]])
         ELSE Raised

\* video_details.get("snippet", {}).get("title", "Untitled Video")
\*     if video_details else "Untitled Video"
title_of(details) ==
    IF details.type = "none" THEN UntitledVideo
    ELSE IF "snippet" \notin DOMAIN details.value THEN UntitledVideo
    ELSE IF "title" \notin DOMAIN details.value.snippet THEN UntitledVideo
    ELSE details.value.snippet.title

\* What the provider answers to a prompt built from the title and the first
\* `limit` characters of the text.
LLMResponse(title, text, limit) ==
    [kind |-> "llm", title |-> title, text |-> Slice(text, 0, limit)]

NoTranscriptNotice == [kind |-> "no_transcript"]

\* The transcripts the API answers with in this model.
HelloWorld ==
    <<[text |-> Timestamp \o <<" ", "H", "e", "l", "l", "o">>],
      [text |-> <<"w", "o", "r", "l", "d", " ", " ">>]>>
StyledHi == <<[text |-> <<"<", "c", ">", "h", "i", "<", "/", "c", ">">>]>>
OnlyMarkup == <<[text |-> <<"<", "c", ">", "<", "/", "c", ">">>]>>

SampleTranscripts == {HelloWorld, StyledHi, OnlyMarkup}

ErrorResponses ==
    {[kind |-> "connection_error"], [kind |-> "http_error"]}
    \cup {[kind |-> "bad_json", caught |-> c] : c \in BOOLEAN}

Missing == [type |-> "missing", value |-> <<>>]

TranscriptResponses ==
    ErrorResponses
    \cup {[kind |-> "json", success |-> sc, transcript |-> tr] :
             sc \in {"true", "false", "missing"},
             tr \in {Missing, ListOf(<<>>)} \cup {ListOf(l) : l \in SampleTranscripts}}

VideoResponses ==
    ErrorResponses
    \cup {[kind |-> "json", items |-> it] :
             it \in {Missing, ListOf(<<>>),
                     ListOf(<<[snippet |-> [title |-> "My Video"]]>>),
                     ListOf(<<[snippet |-> [channel |-> "x"]]>>),
                     ListOf(<<[id |-> "abc"]>>)}}

LLMOutcomes == {"ok", "setup_raise", "call_raise"}
OpenOutcomes == {"ok", "oserror"}

InitDriver ==
    /\ script = "driver"
    /\ pc = "fetch_transcript"
    /\ args \in {[video_id |-> "abc", output |-> o] : o \in BOOLEAN}
    /\ transcript = NoValue /\ video_details = NoValue /\ video_title = None
    /\ transcript_text = <<>> /\ summary = NoSummary /\ recleaned = <<>>
    /\ exitCode = Running /\ events = <<>> /\ outfile = NoFile
    /\ env = NoEnv /\ USING_AGNO = Unbound /\ llm = Unbound
    /\ obs = [kind |-> "driver", tResp |-> NoObs, mResp |-> NoObs,
              llm |-> None, open |-> None]

\* An exception nobody catches leaves main: traceback, exit status 1.
\* sys.exit(code) ends the run with that status.
Exit(code) == exitCode' = Status(code) /\ pc' = "exited"

\* lines 133-134: transcript = fetch_transcript(args.video_id, args.api_url)
FetchTranscript ==
    /\ script = "driver" /\ pc = "fetch_transcript"
    /\ \E resp \in TranscriptResponses :
          LET r == fetch_transcript(resp)
          IN  /\ obs' = [obs EXCEPT !.tResp = resp]
              /\ events' = Append(events, "GET_transcript")
              /\ IF r.raised
                 THEN Exit(1) /\ UNCHANGED transcript
                 ELSE /\ transcript' = r.value
                      /\ pc' = "check_transcript"
                      /\ UNCHANGED exitCode
    /\ UNCHANGED <<script, args, env, video_details, video_title, transcript_text,
                   summary, recleaned, outfile, USING_AGNO, llm>>

CheckTranscript_retry ==
    /\ script = "driver" /\ pc = "check_transcript"
    /\ IF Falsy(transcript)
       THEN pc' = "fetch_transcript" /\ UNCHANGED exitCode
       ELSE pc' = "fetch_video" /\ UNCHANGED exitCode
    /\ UNCHANGED <<script, args, env, transcript, video_details, video_title,
                   transcript_text, summary, recleaned, events, outfile,
                   USING_AGNO, llm, obs>>

\* lines 136-137: if not transcript: sys.exit(1)
CheckTranscript ==
    /\ script = "driver" /\ pc = "check_transcript"
    /\ IF Falsy(transcript)
       THEN Exit(1)
       ELSE pc' = "fetch_video" /\ UNCHANGED exitCode
    /\ UNCHANGED <<script, args, env, transcript, video_details, video_title,
                   transcript_text, summary, recleaned, events, outfile,
                   USING_AGNO, llm, obs>>

\* lines 139-140: video_details = fetch_video_details(...)
FetchVideoDetails ==
    /\ script = "driver" /\ pc = "fetch_video"
    /\ \E resp \in VideoResponses :
          LET r == fetch_video_details(resp)
          IN  /\ obs' = [obs EXCEPT !.mResp = resp]
              /\ events' = Append(events, "GET_video")
              /\ IF r.raised
                 THEN Exit(1) /\ UNCHANGED video_details
                 ELSE /\ video_details' = r.value
                      /\ pc' = "title"
                      /\ UNCHANGED exitCode
    /\ UNCHANGED <<script, args, env, transcript, video_title, transcript_text,
                   summary, recleaned, outfile, USING_AGNO, llm>>

\* line 141
SetTitle ==
    /\ script = "driver" /\ pc = "title"
    /\ video_title' = title_of(video_details)
    /\ pc' = "clean"
    /\ UNCHANGED <<script, args, env, transcript, video_details, transcript_text,
                   summary, recleaned, exitCode, events, outfile, USING_AGNO,
                   llm, obs>>

\* lines 143-144
Clean ==
    /\ script = "driver" /\ pc = "clean"
    /\ transcript_text' = clean_transcript_text(transcript.value)
    /\ events' = Append(events, "clean")
    /\ pc' = "summarize"
    /\ UNCHANGED <<script, args, env, transcript, video_details, video_title,
                   summary, recleaned, exitCode, outfile, USING_AGNO, llm, obs>>

\* lines 146-147 and summarize_with_agno (89-123): no try around get_llm(),
\* Agent(...) or agent.generate(prompt).
Summarize ==
    /\ script = "driver" /\ pc = "summarize"
    /\ IF transcript_text = <<>>
       THEN /\ summary' = NoTranscriptNotice
            /\ events' = Append(events, "summarize")
            /\ pc' = "emit"
            /\ UNCHANGED <<exitCode, obs>>
       ELSE \E outcome \in LLMOutcomes :
               /\ obs' = [obs EXCEPT !.llm = outcome]
               /\ events' = IF outcome = "setup_raise"
                            THEN Append(events, "summarize")
                            ELSE events \o <<"summarize", "LLM_call">>
               /\ IF outcome = "ok"
                  THEN /\ summary' = LLMResponse(video_title, transcript_text,
                                                 PromptChars)
                       /\ pc' = "emit"
                       /\ UNCHANGED exitCode
                  ELSE Exit(1) /\ UNCHANGED summary
    /\ UNCHANGED <<script, args, env, transcript, video_details, video_title,
                   transcript_text, recleaned, outfile, USING_AGNO, llm>>

\* lines 150-165, then main returns: exit status 0
Emit ==
    /\ script = "driver" /\ pc = "emit"
    /\ IF args.output
       THEN \E outcome \in OpenOutcomes :
               /\ obs' = [obs EXCEPT !.open = outcome]
               /\ IF outcome = "ok"
                  THEN /\ outfile' = [exists |-> TRUE,
                                      content |-> [video_id |-> args.video_id,
                                                   title |-> video_title,
                                                   summary |-> summary]]
                       /\ events' = Append(events, "write_file")
                       /\ Exit(0)
                  ELSE Exit(1) /\ UNCHANGED <<outfile, events>>
       ELSE /\ events' = Append(events, "print_summary")
            /\ Exit(0)
            /\ UNCHANGED <<outfile, obs>>
    /\ UNCHANGED <<script, args, env, transcript, video_details, video_title,
                   transcript_text, summary, recleaned, USING_AGNO, llm>>

NextDriver ==
    \/ FetchTranscript
    \/ CheckTranscript
    \/ FetchVideoDetails
    \/ SetTitle
    \/ Clean
    \/ Summarize
    \/ Emit

----------------------------------------------------------------------------
(* summarize_transcript_with_agnos.py: module initialisation, main and     *)
(* agno_summarize                                                          *)

\* "text[:4000]" of the prompt
AgnoPromptChars == 4000

True == "True"
False == "False"

ImportOutcomes == {"ok", "ImportError", "other_error"}
ConstructOutcomes == {"ok", "raise"}

\* The transcript files main may load: a list of segments or a string.
WithoutText == <<[start |-> <<"0">>], [text |-> <<"h", "i">>]>>

AgnosTranscripts ==
    {ListOf(l) : l \in {HelloWorld, OnlyMarkup, WithoutText}}
    \cup {StrOf(GenText(n, "markup")) : n \in {MinWords - 1, MinWords}}

InitAgnos ==
    /\ script = "agnos"
    /\ pc = "import_agno"
    /\ env \in Environments
    /\ USING_AGNO = Unbound /\ llm = Unbound
    /\ args = NoArgs /\ transcript = NoValue /\ video_details = NoValue
    /\ video_title = None /\ transcript_text = <<>> /\ summary = NoSummary
    /\ recleaned = <<>> /\ exitCode = Running /\ events = <<>> /\ outfile = NoFile
    /\ obs = [kind |-> "agnos", import_agno |-> None, import_azure |-> None,
              construct |-> None, llm |-> None]

\* lines 20-25: only ImportError is caught
ImportAgno ==
    /\ script = "agnos" /\ pc = "import_agno"
    /\ \E outcome \in ImportOutcomes :
          /\ obs' = [obs EXCEPT !.import_agno = outcome]
          /\ CASE outcome = "ok" ->
                    USING_AGNO' = True /\ pc' = "import_azure" /\ UNCHANGED exitCode
               [] outcome = "ImportError" ->
                    USING_AGNO' = False /\ pc' = "import_azure" /\ UNCHANGED exitCode
               [] outcome = "other_error" ->
                    Exit(1) /\ UNCHANGED USING_AGNO
    /\ UNCHANGED <<script, args, env, transcript, video_details, video_title,
                   transcript_text, summary, recleaned, events, outfile, llm>>

\* lines 28-32
ImportAzure ==
    /\ script = "agnos" /\ pc = "import_azure"
    /\ IF USING_AGNO = True
       THEN \E outcome \in ImportOutcomes :
               /\ obs' = [obs EXCEPT !.import_azure = outcome]
               /\ CASE outcome = "ok" ->
                         pc' = "check_env" /\ UNCHANGED <<USING_AGNO, exitCode>>
                    [] outcome = "ImportError" ->
                         USING_AGNO' = False /\ pc' = "check_env" /\ UNCHANGED exitCode
                    [] outcome = "other_error" ->
                         Exit(1) /\ UNCHANGED USING_AGNO
       ELSE pc' = "check_env" /\ UNCHANGED <<USING_AGNO, exitCode, obs>>
    /\ UNCHANGED <<script, args, env, transcript, video_details, video_title,
                   transcript_text, summary, recleaned, events, outfile, llm>>

check_env_key_only(e, flag) ==
    IF EnvMissing(e, EnvVars[1]) THEN False ELSE flag

\* The flag after the loop of lines 35-37 over the three variables.
check_env(e, flag) ==
    IF \E k \in 1..Len(EnvVars) : EnvMissing(e, EnvVars[k]) THEN False ELSE flag

\* lines 35-37
CheckEnv ==
    /\ script = "agnos" /\ pc = "check_env"
    /\ USING_AGNO' = check_env(env, USING_AGNO)
    /\ pc' = "llm_none"
    /\ UNCHANGED <<script, args, env, transcript, video_details, video_title,
                   transcript_text, summary, recleaned, exitCode, events, outfile,
                   llm, obs>>

\* line 41
SetLlmNone ==
    /\ script = "agnos" /\ pc = "llm_none"
    /\ llm' = None
    /\ pc' = "init_client"
    /\ UNCHANGED <<script, args, env, transcript, video_details, video_title,
                   transcript_text, summary, recleaned, exitCode, events, outfile,
                   USING_AGNO, obs>>

\* lines 43-77
InitClient ==
    /\ script = "agnos" /\ pc = "init_client"
    /\ IF USING_AGNO = True
       THEN IF EnvMissing(env, EnvVars[1])
            THEN USING_AGNO' = False /\ UNCHANGED <<llm, obs>>
            ELSE \E outcome \in ConstructOutcomes :
                    /\ obs' = [obs EXCEPT !.construct = outcome]
                    /\ IF outcome = "ok"
                       THEN llm' = SummarizeWithOpenai /\ UNCHANGED USING_AGNO
                       ELSE USING_AGNO' = False /\ UNCHANGED llm
       ELSE UNCHANGED <<USING_AGNO, llm, obs>>
    /\ pc' = "main"
    /\ UNCHANGED <<script, args, env, transcript, video_details, video_title,
                   transcript_text, summary, recleaned, exitCode, events, outfile>>

\* lines 162-167: the command line, then load_transcript
MainLoad ==
    /\ script = "agnos" /\ pc = "main"
    /\ \/ \* no transcript path: usage, sys.exit(1); or the file cannot be
          \* read or parsed: uncaught
          /\ Exit(1)
          /\ UNCHANGED <<transcript, video_title>>
       \/ /\ transcript' \in AgnosTranscripts
          /\ video_title' \in Titles
          /\ pc' = "agno_clean"
          /\ UNCHANGED exitCode
    /\ UNCHANGED <<script, args, env, video_details, transcript_text, summary,
                   recleaned, events, outfile, USING_AGNO, llm, obs>>

\* ' '.join([seg.get('text', '') for seg in transcript if 'text' in seg])
segments_text(segments) ==
    LET HasText(seg) == "text" \in DOMAIN seg
        with_text == SelectSeq(segments, HasText)
    IN  Join([k \in 1..Len(with_text) |-> with_text[k].text], <<" ">>)

\* lines 91-101
agno_clean(t) ==
    strip_tags_and_normalize(IF t.type = "list" THEN segments_text(t.value)
                             ELSE t.value)

AgnoClean ==
    /\ script = "agnos" /\ pc = "agno_clean"
    /\ transcript_text' = agno_clean(transcript)
    /\ pc' = "agno_llm"
    /\ UNCHANGED <<script, args, env, transcript, video_details, video_title,
                   summary, recleaned, exitCode, events, outfile, USING_AGNO,
                   llm, obs>>

AgnoLLM_propagate ==
    /\ script = "agnos" /\ pc = "agno_llm"
    /\ IF USING_AGNO = True /\ llm # None
       THEN \E outcome \in {"ok", "raise"} :
               /\ obs' = [obs EXCEPT !.llm = outcome]
               /\ events' = Append(events, "LLM_call")
               /\ IF outcome = "ok"
                  THEN /\ summary' = LLMResponse(video_title, transcript_text,
                                                 AgnoPromptChars)
                       /\ pc' = "print"
                       /\ UNCHANGED exitCode
                  ELSE Exit(1) /\ UNCHANGED summary
       ELSE pc' = "agno_fallback" /\ UNCHANGED <<summary, events, obs, exitCode>>
    /\ UNCHANGED <<script, args, env, transcript, video_details, video_title,
                   transcript_text, recleaned, outfile, USING_AGNO, llm>>

\* lines 104-118: except Exception: pass
AgnoLLM ==
    /\ script = "agnos" /\ pc = "agno_llm"
    /\ IF USING_AGNO = True /\ llm # None
       THEN \E outcome \in {"ok", "raise"} :
               /\ obs' = [obs EXCEPT !.llm = outcome]
               /\ events' = Append(events, "LLM_call")
               /\ IF outcome = "ok"
                  THEN /\ summary' = LLMResponse(video_title, transcript_text,
                                                 AgnoPromptChars)
                       /\ pc' = "print"
                  ELSE pc' = "agno_fallback" /\ UNCHANGED summary
       ELSE pc' = "agno_fallback" /\ UNCHANGED <<summary, events, obs>>
    /\ UNCHANGED <<script, args, env, transcript, video_details, video_title,
                   transcript_text, recleaned, exitCode, outfile, USING_AGNO, llm>>

\* line 121
AgnoFallback ==
    /\ script = "agnos" /\ pc = "agno_fallback"
    /\ summary' = fallback_summarize(transcript_text, video_title)
    /\ pc' = "print"
    /\ UNCHANGED <<script, args, env, transcript, video_details, video_title,
                   transcript_text, recleaned, exitCode, events, outfile,
                   USING_AGNO, llm, obs>>

\* line 169, then main returns
AgnoPrint ==
    /\ script = "agnos" /\ pc = "print"
    /\ events' = Append(events, "print_summary")
    /\ Exit(0)
    /\ UNCHANGED <<script, args, env, transcript, video_details, video_title,
                   transcript_text, summary, recleaned, outfile, USING_AGNO, llm,
                   obs>>

NextAgnos ==
    \/ ImportAgno
    \/ ImportAzure
    \/ CheckEnv
    \/ SetLlmNone
    \/ InitClient
    \/ MainLoad
    \/ AgnoClean
    \/ AgnoLLM
    \/ AgnoFallback
    \/ AgnoPrint

----------------------------------------------------------------------------
(* A run is one invocation of one of the two scripts. *)

Init == InitDriver \/ InitAgnos

Next == NextDriver \/ NextAgnos

Spec == Init /\ [][Next]_vars

----------------------------------------------------------------------------
(* Properties of fallback_summarize, under SpecFallback *)

\* The words of the generated input, and the excerpt holding words a+1..b.
InputWords == GenWords(obs.n, obs.style)
Excerpt(a, b) == Join(SubSeq(InputWords, a + 1, b), <<" ">>)
Returned1 == script = "fallback" /\ pc = "returned"

PairwiseDistinct ==
    /\ summary.beginning # summary.middle
    /\ summary.middle # summary.end
    /\ summary.beginning # summary.end

\* C5 as stated: for a text of n words, n < 50 gives the notice stating
\* exactly n and no excerpts; n >= 50 gives a report stating exactly n whose
\* three excerpts are pairwise distinct (read for texts whose words are
\* pairwise distinct, where equal excerpts mean equal windows).
C5_ThreeDistinctExcerpts ==
    Returned1 =>
        IF obs.n < MinWords
        THEN summary = [kind |-> "notice", total_words |-> obs.n]
        ELSE /\ summary.kind = "report"
             /\ summary.total_words = obs.n
             /\ obs.style # "same" => PairwiseDistinct

\* C5 amended: n < 50 gives the notice stating exactly n; n >= 50 gives a
\* report stating exactly n with three excerpts, and for a text of distinct
\* words the three excerpts are pairwise distinct exactly when the middle
\* window starts after word 0, that is when n div 2 > 50 (n >= 102).
C5_CountAndExcerpts ==
    Returned1 =>
        IF obs.n < MinWords
        THEN summary = [kind |-> "notice", total_words |-> obs.n]
        ELSE /\ summary.kind = "report"
             /\ summary.total_words = obs.n
             /\ {"beginning", "middle", "end"} \subseteq DOMAIN summary
             /\ obs.style # "same" =>
                   (PairwiseDistinct <=> obs.n \div 2 > HalfWindow)

C5_Witness ==
    /\ Returned1 /\ obs.n \div 2 > HalfWindow /\ obs.style = "markup"
    /\ summary.kind = "report" /\ PairwiseDistinct

\* C8: for n >= 50 the beginning excerpt is words[0 .. min(100,n)-1], the
\* middle excerpt the window of at most 100 words from index
\* max(0, n div 2 - 50), the ending excerpt the last min(100,n) words; the
\* windows lie within 0..n-1, each excerpt has 1 to 100 words, and a given
\* (non-empty) title opens the report.
C8_ExcerptWindows ==
    Returned1 /\ obs.n >= MinWords =>
        LET n == obs.n
            first == Min(ExcerptWords, n)
            ms == IF n \div 2 >= HalfWindow THEN n \div 2 - HalfWindow ELSE 0
            me == Min(ms + ExcerptWords, n)
        IN  /\ summary.kind = "report"
            /\ summary.beginning = Excerpt(0, first)
            /\ summary.middle = Excerpt(ms, me)
            /\ summary.end = Excerpt(n - first, n)
            /\ ms < me /\ me <= n
            /\ \A e \in {summary.beginning, summary.middle, summary.end} :
                  Len(Split(e)) \in 1..ExcerptWords
            /\ Truthy(video_title) => summary.title_text = <<"Video: ", video_title>>
            /\ ~Truthy(video_title) => summary.title_text = <<>>

C8_Witness ==
    /\ Returned1 /\ obs.n = MaxWords /\ obs.style = "plain"
    /\ video_title = "My Video"
    /\ summary.kind = "report" /\ summary.middle # summary.beginning

----------------------------------------------------------------------------
(* Properties of clean_transcript_text, under SpecCleaner *)

HasMarkup(text) ==
    \E i \in 1..Len(text) : TimestampEnd(text, i) # 0 \/ StyleTagEnd(text, i) # 0

ContainsMarkup(segments) ==
    \E k \in 1..Len(segments) : HasMarkup(segments[k].text)

\* C3: when the segments contain timestamp markers or style tags, the cleaned
\* string holds no "<", no ">" and no two consecutive whitespace characters.
C3_NoBracketsNoDoubleSpace ==
    script = "cleaner" /\ pc # "call" /\ ContainsMarkup(transcript.value) =>
        /\ \A i \in 1..Len(transcript_text) : transcript_text[i] \notin {"<", ">"}
        /\ \A i \in 1..(Len(transcript_text) - 1) :
              ~(transcript_text[i] \in Whitespace /\ transcript_text[i + 1] \in Whitespace)

\* C4: cleaning the cleaned text, as a single segment, returns it unchanged.
C4_CleanIdempotent ==
    script = "cleaner" /\ pc = "recleaned" => recleaned = transcript_text

----------------------------------------------------------------------------
(* Properties of the driver and of agno_summarize, under Spec *)

Driver == script = "driver"
Agnos == script = "agnos"
Exited == pc = "exited"
Happened(e) == \E i \in 1..Len(events) : events[i] = e

\* The transcript fetch fails: transport error, non-2xx status, a body that
\* is not JSON, success not true, or no / an empty transcript.
TranscriptFetchFails(resp) ==
    resp.kind # "json" \/ resp.success # "true" \/ resp.transcript.value = <<>>

\* The metadata fetch fails: anything but a JSON body with non-empty items.
MetadataFetchFails(resp) == resp.kind # "json" \/ resp.items.value = <<>>

\* The metadata fetch raises an error that fetch_video_details does not catch.
MetadataFetchRaises(resp) ==
    \/ resp.kind = "json" /\ resp.items.value = <<>>
    \/ resp.kind = "bad_json" /\ ~resp.caught

NothingAfterMetadata ==
    ~Happened("clean") /\ ~Happened("summarize") /\ ~Happened("LLM_call")
    /\ ~Happened("print_summary") /\ ~Happened("write_file") /\ outfile = NoFile

\* C1 as stated: a finished driver run has exit code 1 if and only if the
\* transcript fetch failed, and exit code 0 otherwise, whatever the later
\* steps did.
C1_ExitOneIffTranscriptFails ==
    Driver /\ Exited =>
        exitCode = IF TranscriptFetchFails(obs.tResp) THEN Status(1) ELSE Status(0)

\* C1 amended: a finished driver run whose transcript fetch failed has exit
\* code 1; one whose transcript fetch succeeded has exit code 0 exactly when
\* no later step raised (the metadata fetch did not raise, the LLM setup and
\* call did not raise, the output file opened), and exit code 1 otherwise.
C1_ExitCodes ==
    Driver /\ Exited =>
        IF TranscriptFetchFails(obs.tResp)
        THEN exitCode = Status(1)
        ELSE LET later_raise ==
                     \/ MetadataFetchRaises(obs.mResp)
                     \/ obs.llm \in {"setup_raise", "call_raise"}
                     \/ obs.open = "oserror"
             IN  exitCode = IF later_raise THEN Status(1) ELSE Status(0)

C1_Witness ==
    /\ Driver /\ Exited /\ ~TranscriptFetchFails(obs.tResp)
    /\ obs.mResp.kind = "json" /\ obs.mResp.items.value = <<>>
    /\ exitCode = Status(1)

\* C2: once the transcript API has answered success=false the run has ended
\* with exit code 1, and the output file is never written, the metadata
\* endpoint never requested and the LLM never called.
C2_MissingTranscriptAborts ==
    Driver /\ obs.tResp.kind = "json" /\ obs.tResp.success = "false" =>
        /\ Exited /\ exitCode = Status(1)
        /\ outfile = NoFile
        /\ events = <<"GET_transcript">>

C2_Witness ==
    /\ Driver /\ obs.tResp.kind = "json" /\ obs.tResp.success = "false"
    /\ obs.tResp.transcript = ListOf(HelloWorld)
    /\ Exited /\ exitCode = Status(1)

\* C6: in the agnos script an LLM call that raises is not propagated and
\* agno_summarize returns fallback_summarize(cleaned text, title); in the
\* driver an LLM setup or call that raises ends the run with a non-zero exit
\* and no summary is printed or written.
C6_LlmFailurePolicy ==
    /\ Agnos /\ obs.llm = "raise" =>
          /\ transcript_text = agno_clean(transcript)
          /\ pc \in {"agno_fallback", "print", "exited"}
          /\ pc # "agno_fallback" =>
                summary = fallback_summarize(transcript_text, video_title)
          /\ Exited => exitCode = Status(0) /\ Happened("print_summary")
    /\ Driver /\ obs.llm \in {"setup_raise", "call_raise"} =>
          /\ Exited /\ exitCode # Status(0)
          /\ summary = NoSummary /\ outfile = NoFile
          /\ ~Happened("print_summary") /\ ~Happened("write_file")

C6_Witness ==
    /\ Agnos /\ obs.llm = "raise" /\ Exited
    /\ summary.kind = "report" /\ video_title = "My Video"

\* C7 as stated: after a failed metadata fetch (transport error, non-2xx
\* status, body without items) the driver halts: no cleaning, no LLM call
\* and no output.
C7_MetadataFailureHalts ==
    Driver /\ obs.mResp.kind # "none" /\ MetadataFetchFails(obs.mResp) =>
        NothingAfterMetadata

\* C7 amended: the metadata fetch succeeds only on a JSON body with non-empty
\* items. A transport error or non-2xx status is caught: fetch_video_details
\* returns None and the driver does not halt but goes on with the title
\* "Untitled Video" to cleaning, summarization and output. Only a JSON body
\* without items halts the run (uncaught exception, exit code 1) before any
\* cleaning, LLM call or output.
C7_MetadataFailurePolicy ==
    Driver /\ obs.mResp.kind # "none" =>
        /\ ~MetadataFetchFails(obs.mResp) =>
              video_details = [type |-> "dict", value |-> obs.mResp.items.value[1]]
        /\ obs.mResp.kind \in RequestErrors =>
              /\ video_details = NoValue
              /\ pc # "title" => video_title = UntitledVideo
              /\ pc \in {"emit", "exited"} => Happened("clean") /\ Happened("summarize")
              /\ Exited /\ obs.llm \notin {"setup_raise", "call_raise"}
                        /\ obs.open # "oserror" =>
                    exitCode = Status(0)
        /\ obs.mResp.kind = "json" /\ obs.mResp.items.value = <<>> =>
              Exited /\ exitCode = Status(1) /\ NothingAfterMetadata

C7_Witness ==
    /\ Driver /\ obs.mResp.kind = "http_error" /\ Exited
    /\ exitCode = Status(0) /\ video_title = UntitledVideo
    /\ Happened("LLM_call") /\ Happened("write_file")

Rank(e) ==
    CASE e = "GET_transcript" -> 1
      [] e = "GET_video" -> 2
      [] e = "clean" -> 3
      [] e = "summarize" -> 4
      [] e = "LLM_call" -> 5
      [] e \in {"write_file", "print_summary"} -> 6

\* The step that must have come right before step e.
Before(e) ==
    CASE e = "GET_video" -> "GET_transcript"
      [] e = "clean" -> "GET_video"
      [] e = "summarize" -> "clean"
      [] e \in {"LLM_call", "write_file", "print_summary"} -> "summarize"

\* C9: the driver's steps come in the order fetch transcript, fetch metadata,
\* clean, summarize, emit, each at most once; metadata is requested only
\* after a successful transcript fetch, the LLM is called only after both
\* fetches have finished, and the result (stdout, or the JSON file with
\* video_id, title, summary) is emitted only once summarization returned.
C9_FixedOrderNoRetries ==
    Driver =>
        /\ \A i, j \in 1..Len(events) : i < j => Rank(events[i]) < Rank(events[j])
        /\ \A i \in 1..Len(events) :
              events[i] # "GET_transcript" => Happened(Before(events[i]))
        /\ Happened("GET_video") =>
              ~TranscriptFetchFails(obs.tResp) /\ ~Falsy(transcript)
        /\ Happened("LLM_call") =>
              obs.tResp.kind # "none" /\ obs.mResp.kind # "none"
        /\ Happened("write_file") \/ Happened("print_summary") =>
              /\ summary # NoSummary
              /\ Happened("write_file") <=> args.output
        /\ outfile # NoFile =>
              /\ Happened("write_file")
              /\ outfile.content = [video_id |-> args.video_id,
                                    title |-> video_title, summary |-> summary]

C9_Witness ==
    /\ Driver /\ Exited
    /\ events = <<"GET_transcript", "GET_video", "clean", "summarize",
                  "LLM_call", "write_file">>

\* Some provider variable is unset or empty, or an import or the client
\* construction failed.
InitDegraded ==
    \/ \E k \in 1..Len(EnvVars) : EnvMissing(env, EnvVars[k])
    \/ obs.import_agno # "ok"
    \/ obs.import_azure \in {"ImportError", "other_error"}
    \/ obs.construct = "raise"

InitEnded == pc \in {"main", "agno_clean", "agno_llm", "agno_fallback", "print"}

\* C10: during module initialisation USING_AGNO, once bound, only changes
\* from true to false; once initialisation has ended llm is not None iff
\* USING_AGNO is true; and when a provider variable is unset or empty, or an
\* import or the client construction failed, agno_summarize never calls the
\* LLM and returns the fallback summary.
C10_ProviderFlag ==
    /\ [][Agnos /\ USING_AGNO' # USING_AGNO =>
             \/ USING_AGNO = Unbound /\ USING_AGNO' \in {True, False}
             \/ USING_AGNO = True /\ USING_AGNO' = False]_vars
    /\ [](Agnos /\ InitEnded => (llm # None <=> USING_AGNO = True))
    /\ [](Agnos /\ InitDegraded =>
             /\ ~Happened("LLM_call")
             /\ pc = "print" =>
                   summary = fallback_summarize(transcript_text, video_title))

C10_Witness ==
    /\ Agnos /\ pc = "print"
    /\ env["AZURE_OPENAI_API_KEY"] = "value" /\ env["AZURE_OPENAI_ENDPOINT"] = ""
    /\ obs.import_agno = "ok" /\ obs.import_azure = "ok"
    /\ summary.kind = "notice"

====
